---- MODULE Spec2Model ----
(***************************************************************************)
(* norml: the stream processor (Normalize) and the concurrent multi-file   *)
(* orchestrator (run, normalizeInPlace, normalizeTo).                      *)
(*                                                                         *)
(* Bytes are modelled as sequences of tokens: Sep is the separator line    *)
(* "---\n", a positive number is the canonical encoding of the document    *)
(* with that identity.                                                     *)
(***************************************************************************)
EXTENDS Integers, Sequences, FiniteSets, TLC

\* ------------------------------------------------------------------ bounds
MaxStream == 3      \* items (documents, whitespace) of one Normalize input
MaxFiles == 2       \* file arguments of one batch call
MaxRequested == 3   \* largest -j value tried
MaxCPU == 2         \* largest runtime.NumCPU() tried
MaxKeyLen == 3      \* runes of a string key
MaxNum == 2         \* largest integer key; float keys go up to MaxNum halves
MaxEntries == 3     \* entries of a mapping, items of a sequence

\* ------------------------------------------------------------------ tokens
Sep == 0

\* Errors: what failed and, for a file of a batch, its index.
Err(kind, file) == [kind |-> kind, file |-> file]
NoErr == Err("nil", -1)

\* A stream item: whitespace, or a document that decodes, canonicalizes and
\* encodes ("ok") or fails at one of the three steps.
ItemKinds == {"ws", "ok", "decode", "key", "encode"}

Item(id, k) == [id |-> id, k |-> k]

\* ---------------------------------------------------------------- Normalize
\* Local state of one Normalize call.
NormStart(in) ==
  [in |-> in, out |-> <<>>, cur |-> 0, curKind |-> "ws", encoded |-> 0,
   wrote |-> FALSE, closed |-> FALSE, err |-> NoErr, pc |-> "decode"]

\* Mutant: whitespace is not skipped, it decodes as a document of its own.
SkipSpaceNone(in) == in

RECURSIVE SkipSpace(_)
\* The decoder skips whitespace in front of the next document.
SkipSpace(in) ==
  IF in # <<>> /\ Head(in).k = "ws" THEN SkipSpace(Tail(in)) ELSE in

\* Mutant: a document that fails to decode is skipped and the loop goes on.
StepDecodeSkipBad(s) ==
  LET rest == SkipSpace(s.in) IN
  IF rest = <<>>
    THEN [s EXCEPT !.in = rest, !.pc = "close"]
    ELSE IF Head(rest).k = "decode"
      THEN [s EXCEPT !.in = Tail(rest), !.pc = "decode"]
      ELSE [s EXCEPT !.in = Tail(rest), !.cur = Head(rest).id,
                     !.curKind = Head(rest).k, !.pc = "normalize"]

\* dec.Decode(&node): io.EOF, a decode error, or the next document.
StepDecode(s) ==
  LET rest == SkipSpace(s.in) IN
  IF rest = <<>>
    THEN [s EXCEPT !.in = rest, !.pc = "close"]
    ELSE IF Head(rest).k = "decode"
      THEN [s EXCEPT !.in = Tail(rest), !.err = Err("decode", -1), !.pc = "done"]
      ELSE [s EXCEPT !.in = Tail(rest), !.cur = Head(rest).id,
                     !.curKind = Head(rest).k, !.pc = "normalize"]

\* normalizeNode(&node, preserveComments): fails when a mapping key fails.
StepNormalizeNode(s) ==
  IF s.curKind = "key"
    THEN [s EXCEPT !.err = Err("normalize", -1), !.pc = "done"]
    ELSE [s EXCEPT !.pc = "encode"]

\* Mutant: the encoder never writes the separator line.
EncodeBytesNoSep(encoded, doc) == <<doc>>

\* The encoder starts every document but its first with the separator line.
EncodeBytes(encoded, doc) ==
  IF encoded > 0 THEN <<Sep, doc>> ELSE <<doc>>

\* enc.Encode(&node); wrote = true.
StepEncode(s) ==
  IF s.curKind = "encode"
    THEN [s EXCEPT !.err = Err("encode", -1), !.pc = "done"]
    ELSE [s EXCEPT !.out = s.out \o EncodeBytes(s.encoded, s.cur),
                   !.encoded = s.encoded + 1, !.wrote = TRUE, !.pc = "decode"]

\* Mutant: enc.Close() runs whether or not a document was written.
StepCloseAlways(s) ==
  [s EXCEPT !.closed = TRUE, !.pc = "done"]

\* if wrote { err = enc.Close() }; return err
StepClose(s) ==
  [s EXCEPT !.closed = s.wrote, !.pc = "done"]

NormStep(s) ==
  CASE s.pc = "decode" -> StepDecode(s)
    [] s.pc = "normalize" -> StepNormalizeNode(s)
    [] s.pc = "encode" -> StepEncode(s)
    [] s.pc = "close" -> StepClose(s)
    [] OTHER -> s

RECURSIVE NormRun(_)
\* The loop of Normalize, step after step (t is the state after one step).
NormRun(s) ==
  IF s.pc = "done" THEN s
  ELSE CHOOSE r \in {NormRun(t) : t \in {NormStep(s)}} : TRUE

\* Normalize(r, w, preserveComments) run to its return.
Normalize(in) == NormRun(NormStart(in))


\* The stream a later reader decodes from bytes written by Normalize: the
\* separator lines delimit the documents, every document decodes again.
AsStream(bytes) ==
  LET docs == SelectSeq(bytes, LAMBDA t: t # Sep) IN
  [i \in 1..Len(docs) |-> Item(docs[i], "ok")]

\* ------------------------------------------------------------------- state
VARIABLES
  nsIn,             \* Normalize: the stream handed to the call
  ns,               \* Normalize: dec, enc, node, wrote (one call, stepwise)
  requested,        \* run: the parsed -j flag
  numCPU,           \* run: runtime.NumCPU()
  stdin,            \* run: the standard input stream
  runPc,            \* run: position
  mode,             \* cmd.InPlace: "inplace" or "combined"
  files,            \* cmd.Files: the paths, in argument order
  numWorkers,       \* cmd.Workers
  fs,               \* the file system: path -> [exists, data]
  atCall,           \* the file system and the context when the call was made
  ctxDone,          \* the caller's context is cancelled
  mainPc,           \* normalizeInPlace / normalizeTo: position of the caller
  enq,              \* index of the next file to enqueue
  filesChan,        \* channel of fileInfo, capacity len(files)
  filesClosed,
  resultsChan,      \* channel of fileResult, capacity len(files)
  resultsClosed,
  wPc,              \* per worker: "recv", "file", "write", "done"
  wInfo,            \* per worker: the fileInfo it dequeued
  wData,            \* per worker: what os.ReadFile returned (in-place)
  workersErr,       \* errgroup workers: first error
  workersCancel,    \* errgroup workers: cancel was called
  sPc,              \* sequencer: "off", "recv", "sep", "doc", "done"
  nextIndex,        \* sequencer
  results,          \* sequencer: index -> content
  readerErr,        \* errgroup reader: first error
  out,              \* the output stream w
  ret,              \* returned error
  firstErr,         \* history: the first error any goroutine returned
  recvCount,        \* history: index -> times dequeued
  procCount,        \* history: index -> times a worker started processing
  failed,           \* history: the indices whose processing returned an error
  heldBack,         \* history: a result arrived before its turn and was held
  written,          \* history: the indices in the order their bytes were written
  disk,             \* NormalizeFile: path -> [exists, data, mode]
  umask,            \* NormalizeFile: the permission bits the process masks out
  nf,               \* NormalizeFile: locals of one call, stepwise
  doc0,             \* normalizeNode: the node graph as decoded (history)
  tree,             \* normalizeNode: the node graph, mutated in place
  preserve,         \* normalizeNode: preserveComments
  stack,            \* normalizeNode: the active calls, innermost last
  visits,           \* history: node -> times normalizeNode was entered on it
  nodeErr,          \* normalizeNode: the error the outermost call returned
  ka,               \* Less: the decoded value of m[i]
  kb,               \* Less: the decoded value of m[j]
  cmp               \* Less: the results of Less(i, j) and Less(j, i)

normVars == <<nsIn, ns>>
runVars == <<requested, numCPU, stdin, runPc>>
batchVars == <<mode, files, atCall, numWorkers, fs, ctxDone, mainPc, enq, filesChan,
               filesClosed, resultsChan, resultsClosed, wPc, wInfo, wData,
               workersErr, workersCancel, sPc, nextIndex, results, readerErr,
               firstErr, recvCount, procCount, failed, heldBack, written>>
ioVars == <<out, ret>>
fileVars == <<disk, umask, nf>>
nodeVars == <<doc0, tree, preserve, stack, visits, nodeErr>>
keyVars == <<ka, kb, cmp>>
sortVars == <<nodeVars, keyVars>>
\* package normalizer, as opposed to the command
libVars == <<normVars, fileVars, sortVars>>
vars == <<libVars, runVars, batchVars, ioVars>>

Min(a, b) == IF a < b THEN a ELSE b

Paths == 1..MaxFiles
Missing == [exists |-> FALSE, data |-> <<>>]
File(data) == [exists |-> TRUE, data |-> data]

\* Identity of document j of the file at path p.
DocId(p, j) == p * 10 + j

\* The contents a file starts with: missing, whitespace only (no document),
\* one or two documents, malformed.
FileContents(p) ==
  { Missing,
    File(<<Item(0, "ws")>>),
    File(<<Item(DocId(p, 1), "ok")>>),
    File(<<Item(DocId(p, 1), "ok"), Item(DocId(p, 2), "ok")>>),
    File(<<Item(DocId(p, 1), "decode")>>) }

RECURSIVE SeqsUpTo(_, _)
\* All sequences over S of length at most n.
SeqsUpTo(S, n) ==
  IF n = 0 THEN {<<>>}
  ELSE LET shorter == SeqsUpTo(S, n - 1) IN
       shorter \cup {Append(q, x) : q \in shorter, x \in S}

N == Len(files)
Indices == 0..(N - 1)
PathOf(i) == files[i + 1]
Workers == 1..numWorkers

\* --------------------------------------------------------------------- run
\* Mutant: a non-positive -j is not replaced by the number of CPUs.
WorkerCountNoCoerce(req, cpu, n) == IF n < req THEN n ELSE req

\* cmd.Workers after run's two adjustments.
WorkerCount(req, cpu, n) ==
  LET coerced == IF req <= 0 THEN cpu ELSE req IN
  IF n < coerced THEN n ELSE coerced

\* The worker counts run hands to a batch call on n files.
WorkerCounts(n) ==
  {WorkerCount(req, cpu, n) : req \in (-1)..MaxRequested, cpu \in 1..MaxCPU}

\* The batch variables while no batch call is running.
BatchOff ==
  /\ ctxDone = FALSE /\ mainPc = "off" /\ enq = 0
  /\ filesChan = <<>> /\ filesClosed = FALSE
  /\ resultsChan = <<>> /\ resultsClosed = FALSE
  /\ wPc = <<>> /\ wInfo = <<>> /\ wData = <<>>
  /\ workersErr = NoErr /\ workersCancel = FALSE
  /\ sPc = "off" /\ nextIndex = 0 /\ results = <<>> /\ readerErr = NoErr
  /\ firstErr = NoErr /\ recvCount = <<>> /\ procCount = <<>>
  /\ failed = {} /\ heldBack = FALSE /\ written = <<>>

BatchIdle ==
  /\ mode = "combined" /\ files = <<>> /\ numWorkers = 0
  /\ fs = [p \in Paths |-> Missing]
  /\ atCall = [fs |-> fs, ctxDone |-> FALSE]
  /\ BatchOff

NormIdle == nsIn = <<>> /\ ns = NormStart(<<>>)

RunIdle == requested = 0 /\ numCPU = 0 /\ stdin = <<>> /\ runPc = "off"

\* ----------------------------------------------- NormalizeFile: the values
\* Permission bits are sets of bit values; these three are followed.
OwnerRead == 256     \* 0400
OwnerWrite == 128    \* 0200
GroupWrite == 16     \* 0020

\* const largeFileThreshold = 1 * 1024 * 1024
largeFileThreshold == 1048576

\* The target of the call and the temporary file next to it.
Target == "target"
TmpFile == "tmp"
DiskPaths == {Target, TmpFile}

NoFile == [exists |-> FALSE, data |-> <<>>, mode |-> {}]
DiskFile(data, perm) == [exists |-> TRUE, data |-> data, mode |-> perm]

\* Locals of one NormalizeFile call.  size is what os.Stat reports for the
\* target; orig, statErr, opened and renamed are history.
NfStart(d, size) ==
  [pc |-> "stat", size |-> size, mode |-> {}, large |-> FALSE, r |-> <<>>,
   outPath |-> Target, ns |-> NormStart(<<>>), err |-> NoErr,
   orig |-> d, statErr |-> FALSE, opened |-> FALSE, renamed |-> FALSE]

FileIdle ==
  /\ disk = [p \in DiskPaths |-> NoFile]
  /\ umask = {}
  /\ nf = [NfStart(disk, 0) EXCEPT !.pc = "off"]

NodeIdle ==
  /\ doc0 = <<>> /\ tree = <<>> /\ preserve = FALSE
  /\ stack = <<>> /\ visits = <<>> /\ nodeErr = NoErr

KeysIdle ==
  /\ ka = 0 /\ kb = 0
  /\ cmp = [pc |-> "off", lt |-> FALSE, gt |-> FALSE]

SortIdle == NodeIdle /\ KeysIdle

LibIdle == NormIdle /\ FileIdle /\ SortIdle

\* ------------------------------------------------- Normalize, step by step
\* Input streams; a document is identified by its position in the stream.
Streams ==
  { [j \in 1..Len(q) |-> IF q[j] = "ws" THEN Item(0, "ws") ELSE Item(j, q[j])] :
      q \in SeqsUpTo(ItemKinds, MaxStream) }

NormDecode ==
  /\ ns.pc = "decode"
  /\ ns' = StepDecode(ns)
  /\ UNCHANGED <<nsIn, fileVars, sortVars, runVars, batchVars, ioVars>>

NormNormalizeNode ==
  /\ ns.pc = "normalize"
  /\ ns' = StepNormalizeNode(ns)
  /\ UNCHANGED <<nsIn, fileVars, sortVars, runVars, batchVars, ioVars>>

NormEncode ==
  /\ ns.pc = "encode"
  /\ ns' = StepEncode(ns)
  /\ UNCHANGED <<nsIn, fileVars, sortVars, runVars, batchVars, ioVars>>

NormClose ==
  /\ ns.pc = "close"
  /\ ns' = StepClose(ns)
  /\ UNCHANGED <<nsIn, fileVars, sortVars, runVars, batchVars, ioVars>>

InitNormalize ==
  /\ nsIn \in Streams
  /\ ns = NormStart(nsIn)
  /\ FileIdle /\ SortIdle /\ RunIdle /\ BatchIdle
  /\ out = <<>> /\ ret = NoErr

NextNormalize == NormDecode \/ NormNormalizeNode \/ NormEncode \/ NormClose

SpecNormalize == InitNormalize /\ [][NextNormalize]_vars

\* --------------------------------------------- NormalizeFile, step by step
\* finalErr after a deferred Close or Flush returned e: the first error stays.
Deferred(finalErr, e) == IF finalErr = NoErr THEN e ELSE finalErr

\* Mutant: the large-file path writes to the target itself.
OutPathTarget(large) == Target

\* The path normalizeToFile is given: the temporary file on the large-file
\* path, the file itself on the small-file path.
OutPath(large) == IF large THEN TmpFile ELSE Target

\* Mutant: a file created by OpenFile gets the mode it was asked for.
CreatedModeUnmasked(f, perm, mask) == IF f.exists THEN f.mode ELSE perm

\* Mode of a file after os.OpenFile(O_CREATE|O_TRUNC|O_WRONLY, mode): an
\* existing file keeps its mode, a created one gets mode less the umask.
CreatedMode(f, perm, mask) == IF f.exists THEN f.mode ELSE perm \ mask

\* Mutant: a file without the owner write bit is not rejected.
WritableAlways(perm) == TRUE

\* fileInfo.Mode()&0200 != 0
Writable(perm) == OwnerWrite \in perm

NfFrame == UNCHANGED <<umask, normVars, sortVars, runVars, batchVars, ioVars>>

\* os.Stat, the write-bit check and the choice of the path by size.
FileStat ==
  /\ nf.pc = "stat"
  /\ \E ok \in BOOLEAN :
       LET f == disk[Target] IN
       IF ~f.exists \/ ~ok
         THEN nf' = [nf EXCEPT !.err = Err("stat", -1), !.statErr = TRUE,
                               !.pc = "done"]
         ELSE IF ~Writable(f.mode)
           THEN nf' = [nf EXCEPT !.err = Err("not writable", -1),
                                 !.pc = "done"]
           ELSE nf' = [nf EXCEPT !.mode = f.mode,
                                 !.large = nf.size > largeFileThreshold,
                                 !.pc = IF nf.size <= largeFileThreshold
                                          THEN "read" ELSE "openIn"]
  /\ UNCHANGED disk
  /\ NfFrame

\* normalizeFileSmall: os.ReadFile(filename).
FileRead ==
  /\ nf.pc = "read"
  /\ \E ok \in BOOLEAN :
       IF ok
         THEN nf' = [nf EXCEPT !.r = disk[Target].data, !.opened = TRUE,
                               !.outPath = OutPath(FALSE), !.pc = "openOut"]
         ELSE nf' = [nf EXCEPT !.err = Err("read", -1), !.pc = "done"]
  /\ UNCHANGED disk
  /\ NfFrame

\* normalizeFileLarge: os.Open(filename); the reader streams its content.
FileOpenIn ==
  /\ nf.pc = "openIn"
  /\ \E ok \in BOOLEAN :
       IF ok
         THEN nf' = [nf EXCEPT !.r = disk[Target].data, !.opened = TRUE,
                               !.outPath = OutPath(TRUE), !.pc = "openOut"]
         ELSE nf' = [nf EXCEPT !.err = Err("read", -1), !.pc = "done"]
  /\ UNCHANGED disk
  /\ NfFrame

\* normalizeToFile: os.OpenFile(filename, O_CREATE|O_TRUNC|O_WRONLY, mode).
FileOpenOut ==
  /\ nf.pc = "openOut"
  /\ \E ok \in BOOLEAN :
       IF ok
         THEN /\ disk' = [disk EXCEPT ![nf.outPath] =
                           DiskFile(<<>>, CreatedMode(@, nf.mode, umask))]
              /\ nf' = [nf EXCEPT !.ns = NormStart(nf.r), !.opened = TRUE,
                                  !.pc = "normalize"]
         ELSE /\ nf' = [nf EXCEPT !.err = Err("open", -1),
                                  !.pc = IF nf.large THEN "closeIn" ELSE "done"]
              /\ UNCHANGED disk
  /\ NfFrame

\* One step of Normalize(r, w, preserveComments), w the buffered writer.
FileNormalizeStep ==
  /\ nf.pc = "normalize"
  /\ LET n == NormStep(nf.ns) IN
       nf' = IF n.pc = "done"
               THEN [nf EXCEPT !.ns = n, !.err = n.err, !.pc = "flush"]
               ELSE [nf EXCEPT !.ns = n]
  /\ UNCHANGED disk
  /\ NfFrame

\* The buffered writer is full and passes what it holds to the file.
FileBufferFull ==
  /\ nf.pc = "normalize"
  /\ disk[nf.outPath].data # nf.ns.out
  /\ disk' = [disk EXCEPT ![nf.outPath].data = nf.ns.out]
  /\ UNCHANGED nf
  /\ NfFrame

\* Mutant: what the buffered writer still holds is never written.
FlushedNothing(data, buffered) == data

\* The bytes of the file after w.Flush(): all that was written to w.
Flushed(data, buffered) == buffered

\* deferred w.Flush()
FileFlush ==
  /\ nf.pc = "flush"
  /\ \E ok \in BOOLEAN :
       IF ok
         THEN /\ disk' = [disk EXCEPT ![nf.outPath].data =
                                       Flushed(@, nf.ns.out)]
              /\ nf' = [nf EXCEPT !.pc = "closeOut"]
         ELSE /\ nf' = [nf EXCEPT !.err = Deferred(@, Err("flush", -1)),
                                  !.pc = "closeOut"]
              /\ UNCHANGED disk
  /\ NfFrame

\* deferred outFile.Close(); normalizeToFile returns.
FileCloseOut ==
  /\ nf.pc = "closeOut"
  /\ \E ok \in BOOLEAN :
       LET e == IF ok THEN nf.err ELSE Deferred(nf.err, Err("close", -1)) IN
       nf' = [nf EXCEPT !.err = e,
                        !.pc = IF ~nf.large THEN "done"
                               ELSE IF e # NoErr THEN "closeIn" ELSE "rename"]
  /\ UNCHANGED disk
  /\ NfFrame

\* os.Rename(tmpFile, filename)
FileRename ==
  /\ nf.pc = "rename"
  /\ \E ok \in BOOLEAN :
       IF ok
         THEN /\ disk' = [disk EXCEPT ![Target] = disk[TmpFile],
                                      ![TmpFile] = NoFile]
              /\ nf' = [nf EXCEPT !.renamed = TRUE, !.pc = "closeIn"]
         ELSE /\ nf' = [nf EXCEPT !.err = Err("rename", -1), !.pc = "closeIn"]
              /\ UNCHANGED disk
  /\ NfFrame

\* deferred inFile.Close(); normalizeFileLarge returns.
FileCloseIn ==
  /\ nf.pc = "closeIn"
  /\ \E ok \in BOOLEAN :
       nf' = [nf EXCEPT
                !.err = IF ok THEN @ ELSE Deferred(@, Err("close", -1)),
                !.pc = "done"]
  /\ UNCHANGED disk
  /\ NfFrame

\* The process is interrupted in the middle of the call.
FileInterrupt ==
  /\ nf.pc \notin {"off", "done", "interrupted"}
  /\ nf' = [nf EXCEPT !.pc = "interrupted"]
  /\ UNCHANGED disk
  /\ NfFrame

\* The modes a file starts with: 0600, 0620, 0400, 0420.
FileModes ==
  { {OwnerRead, OwnerWrite}, {OwnerRead, OwnerWrite, GroupWrite},
    {OwnerRead}, {OwnerRead, GroupWrite} }

\* What is at the temporary path before the call: nothing, or a file left
\* there earlier.
StaleFiles == {NoFile, DiskFile(<<MaxStream + 1>>, {OwnerRead, OwnerWrite})}

InitFile ==
  /\ NormIdle /\ SortIdle /\ RunIdle /\ BatchIdle
  /\ out = <<>> /\ ret = NoErr
  /\ umask \in {{}, {GroupWrite}}
  /\ \E tgt \in {NoFile} \cup
                    {DiskFile(d, m) : d \in Streams, m \in FileModes},
        stale \in StaleFiles :
       disk = [p \in DiskPaths |-> IF p = Target THEN tgt ELSE stale]
  /\ \E size \in {largeFileThreshold, largeFileThreshold + 1} :
       nf = NfStart(disk, size)

NextFile ==
  \/ FileStat \/ FileRead \/ FileOpenIn \/ FileOpenOut
  \/ FileNormalizeStep \/ FileBufferFull \/ FileFlush \/ FileCloseOut
  \/ FileRename \/ FileCloseIn \/ FileInterrupt

SpecFile == InitFile /\ [][NextFile]_vars

\* ---------------------------------------------------------- Key Comparator
\* A decoded key: t is the kind of the value n.Decode(&value) produced
\* ("Null" for nil, "Seq" for a slice, "Map" for a map), n the value of a
\* Bool (0, 1) or an Int, or twice the value of a Float (halves are
\* representable), nan marks the Float NaN, s holds the runes of a String.
Key(t, n, s, nan) == [t |-> t, n |-> n, s |-> s, nan |-> nan]
BoolKey(b) == Key("Bool", IF b THEN 1 ELSE 0, <<>>, FALSE)
IntKey(n) == Key("Int", n, <<>>, FALSE)
FloatKey(halves) == Key("Float", halves, <<>>, FALSE)
NaNKey == Key("Float", 0, <<>>, TRUE)
StringKey(s) == Key("String", 0, s, FALSE)
\* A null, sequence or mapping key; n tells two such keys apart.
OtherKey(t, n) == Key(t, n, <<>>, FALSE)

\* Mutant: a string has the lowest rank.
KindStringFirst(k) ==
  CASE k.t = "Null" -> 0
    [] k.t = "Bool" -> 1
    [] k.t = "Int" -> 2
    [] k.t = "Float" -> 14
    [] k.t = "Map" -> 21
    [] k.t = "Seq" -> 23
    [] k.t = "String" -> -1

\* a.Kind(): the rank of the reflect.Kind of the decoded value.
Kind(k) ==
  CASE k.t = "Null" -> 0
    [] k.t = "Bool" -> 1
    [] k.t = "Int" -> 2
    [] k.t = "Float" -> 14
    [] k.t = "Map" -> 21
    [] k.t = "Seq" -> 23
    [] k.t = "String" -> 24

\* num(v): ok
IsNumber(k) == k.t \in {"Bool", "Int", "Float"}

\* num(v): f, as a count of halves
Num(k) == IF k.t = "Float" THEN k.n ELSE 2 * k.n

\* aNum != bNum and aNum < bNum on float64: NaN differs from every value
\* and is below none.
NumNe(a, b) == a.nan \/ b.nan \/ Num(a) # Num(b)
NumLt(a, b) == ~a.nan /\ ~b.nan /\ Num(a) < Num(b)

\* numLess(a, b), called with two keys of one kind
numLess(a, b) ==
  CASE a.t = "Int" -> a.n < b.n
    [] a.t = "Float" -> NumLt(a, b)
    [] a.t = "Bool" -> a.n = 0 /\ b.n = 1

\* unicode.IsDigit and unicode.IsLetter on the runes followed ('0'..'9',
\* 'A'..'Z', 'a'..'z').
IsDigit(c) == c \in 48..57
IsLetter(c) == c \in (65..90) \cup (97..122)

\* The value of i after the first loop: the length of the common prefix.
CommonPrefix(a, b) ==
  LET same == {i \in 0..Min(Len(a), Len(b)) : \A j \in 1..i : a[j] = b[j]}
  IN CHOOSE i \in same : \A j \in same : j <= i

RECURSIVE DigitRunEnd(_, _)
\* for ai = i; ai < len(a) && unicode.IsDigit(a[ai]); ai++: the final ai,
\* from the 1-based position p.
DigitRunEnd(a, p) ==
  IF p <= Len(a) /\ IsDigit(a[p]) THEN DigitRunEnd(a, p + 1) ELSE p

\* An int64 is held as its 64 bits in two's complement, cut into four limbs
\* of 16 bits, the lowest first.
Limb == 65536

\* int64(n) for 0 <= n < 65536
Int64(n) == <<n, 0, 0, 0>>

\* x*10 + d on int64: the carry out of the top limb is lost.
MulAdd10(x, d) ==
  LET t1 == x[1] * 10 + d
      t2 == x[2] * 10 + t1 \div Limb
      t3 == x[3] * 10 + t2 \div Limb
      t4 == x[4] * 10 + t3 \div Limb
  IN <<t1 % Limb, t2 % Limb, t3 % Limb, t4 % Limb>>

\* x < y on int64: a set top bit makes the value negative.
Int64Less(x, y) ==
  LET nx == x[4] >= Limb \div 2
      ny == y[4] >= Limb \div 2
  IN IF nx # ny THEN nx
     ELSE \E k \in 1..4 :
            /\ x[k] < y[k]
            /\ \A h \in (k + 1)..4 : x[h] = y[h]

RECURSIVE DigitRunValue(_, _, _)
\* an = an*10 + int64(a[ai]-'0') over the run that starts at position p.
DigitRunValue(a, p, an) ==
  IF p <= Len(a) /\ IsDigit(a[p])
    THEN DigitRunValue(a, p + 1, MulAdd10(an, a[p] - 48))
    ELSE an

RECURSIVE NonZeroBefore(_, _)
\* for j := i - 1; j >= 0 && unicode.IsDigit(a[j]); j--: a digit other than
\* '0' is found in the digits that end at position j.
NonZeroBefore(a, j) ==
  IF j >= 1 /\ IsDigit(a[j])
    THEN IF a[j] # 48 THEN TRUE ELSE NonZeroBefore(a, j - 1)
    ELSE FALSE

\* Mutant: the digit runs are compared rune by rune, not by value.
stringNaturalLessLexical(a, b) ==
  LET i == CommonPrefix(a, b) IN
  IF i >= Len(a) \/ i >= Len(b) THEN Len(a) < Len(b) ELSE a[i + 1] < b[i + 1]

\* Mutant: digits stays set once a digit was seen in the common prefix.
stringNaturalLessDigitsSticky(a, b) ==
  LET i == CommonPrefix(a, b)
      digits == \E j \in 1..i : IsDigit(a[j])
      p == i + 1
  IN IF i >= Len(a) \/ i >= Len(b)
       THEN Len(a) < Len(b)
       ELSE LET al == IsLetter(a[p])
                bl == IsLetter(b[p])
                one == IF (a[p] = 48 \/ b[p] = 48) /\ NonZeroBefore(a, i)
                         THEN Int64(1) ELSE Int64(0)
                an == DigitRunValue(a, p, one)
                bn == DigitRunValue(b, p, one)
                ai == DigitRunEnd(a, p)
                bi == DigitRunEnd(b, p)
            IN IF al /\ bl THEN a[p] < b[p]
               ELSE IF al \/ bl THEN (IF digits THEN al ELSE bl)
               ELSE IF an # bn THEN Int64Less(an, bn)
               ELSE IF ai # bi THEN ai < bi
               ELSE a[p] < b[p]

\* stringNaturalLess(a, b []rune)
stringNaturalLess(a, b) ==
  LET i == CommonPrefix(a, b)
      digits == i > 0 /\ IsDigit(a[i])
      p == i + 1
  IN IF i >= Len(a) \/ i >= Len(b)
       THEN Len(a) < Len(b)
       ELSE LET al == IsLetter(a[p])
                bl == IsLetter(b[p])
                one == IF (a[p] = 48 \/ b[p] = 48) /\ NonZeroBefore(a, i)
                         THEN Int64(1) ELSE Int64(0)
                an == DigitRunValue(a, p, one)
                bn == DigitRunValue(b, p, one)
                ai == DigitRunEnd(a, p)
                bi == DigitRunEnd(b, p)
            IN IF al /\ bl THEN a[p] < b[p]
               ELSE IF al \/ bl THEN (IF digits THEN al ELSE bl)
               ELSE IF an # bn THEN Int64Less(an, bn)
               ELSE IF ai # bi THEN ai < bi
               ELSE a[p] < b[p]

\* Mutant: two keys of one kind that are not both strings are each below
\* the other.
LessKindOrEqual(a, b) ==
  IF IsNumber(a) /\ IsNumber(b)
    THEN IF NumNe(a, b) THEN NumLt(a, b)
         ELSE IF Kind(a) # Kind(b) THEN Kind(a) < Kind(b)
         ELSE numLess(a, b)
    ELSE IF a.t # "String" \/ b.t # "String"
      THEN Kind(a) <= Kind(b)
      ELSE stringNaturalLess(a.s, b.s)

\* Mutant: two numbers of equal value are never ordered by their kind.
LessNoKindRank(a, b) ==
  IF IsNumber(a) /\ IsNumber(b)
    THEN NumLt(a, b)
    ELSE IF a.t # "String" \/ b.t # "String"
      THEN Kind(a) < Kind(b)
      ELSE stringNaturalLess(a.s, b.s)

\* mapKeys.Less on the decoded values of two keys
Less(a, b) ==
  IF IsNumber(a) /\ IsNumber(b)
    THEN IF NumNe(a, b) THEN NumLt(a, b)
         ELSE IF Kind(a) # Kind(b) THEN Kind(a) < Kind(b)
         ELSE numLess(a, b)
    ELSE IF a.t # "String" \/ b.t # "String"
      THEN Kind(a) < Kind(b)
      ELSE stringNaturalLess(a.s, b.s)

\* ------------------------------------------------- Less, on pairs of keys
\* The runes of the string keys: '0', '1', '2', 'a', 'b'.
KeyRunes == {48, 49, 50, 97, 98}

\* Digit runs at the edge of int64, 2^63 - 1, 2^63 and 2^64, and two runes
\* that are neither letters nor digits, '-' and '_'.
LongRuns ==
  { <<57, 50, 50, 51, 51, 55, 50, 48, 51, 54, 56, 53, 52, 55, 55, 53, 56, 48, 55>>,
    <<57, 50, 50, 51, 51, 55, 50, 48, 51, 54, 56, 53, 52, 55, 55, 53, 56, 48, 56>>,
    <<49, 56, 52, 52, 54, 55, 52, 52, 48, 55, 51, 55, 48, 57, 53, 53, 49, 54, 49, 54>> }

OtherRunes == { <<45>>, <<95>>, <<49, 45>> }

StringKeys ==
  {StringKey(s) : s \in SeqsUpTo(KeyRunes, MaxKeyLen) \cup LongRuns \cup OtherRunes}

NumberKeys ==
  {BoolKey(b) : b \in BOOLEAN}
    \cup {IntKey(n) : n \in (-1)..MaxNum}
    \cup {FloatKey(h) : h \in 0..(MaxNum + 1)}
    \cup {NaNKey}

OtherKeys ==
  {OtherKey("Null", 0), OtherKey("Seq", 1), OtherKey("Seq", 2),
   OtherKey("Map", 1)}

CmpKeys == StringKeys \cup NumberKeys \cup OtherKeys

KeysFrame ==
  UNCHANGED <<ka, kb, nodeVars, normVars, fileVars, runVars, batchVars, ioVars>>

\* m.Less(i, j)
KeysLessIJ ==
  /\ cmp.pc = "ij"
  /\ cmp' = [cmp EXCEPT !.lt = Less(ka, kb), !.pc = "ji"]
  /\ KeysFrame

\* m.Less(j, i)
KeysLessJI ==
  /\ cmp.pc = "ji"
  /\ cmp' = [cmp EXCEPT !.gt = Less(kb, ka), !.pc = "done"]
  /\ KeysFrame

InitKeys ==
  /\ NormIdle /\ FileIdle /\ NodeIdle /\ RunIdle /\ BatchIdle
  /\ out = <<>> /\ ret = NoErr
  /\ ka \in CmpKeys /\ kb \in CmpKeys
  /\ cmp = [pc |-> "ij", lt |-> FALSE, gt |-> FALSE]

NextKeys == KeysLessIJ \/ KeysLessJI

SpecKeys == InitKeys /\ [][NextKeys]_vars

\* ------------------------------------------------------------ sortMapKeys
\* A yaml.Node of a node graph, which is a sequence of nodes, a node's
\* identity being its position: Kind, Style, the three comments, Content as
\* the identities of the children, Alias as the identity of the target (0 for
\* none), key, the value n.Decode(&value) leaves in value for the node, and
\* decodeErr, whether that call returns an error (value is then left nil).
Node(kind, key, content) ==
  [kind |-> kind, style |-> 0, head |-> "", line |-> "", foot |-> "",
   key |-> key, content |-> content, alias |-> 0, decodeErr |-> FALSE]

\* A scalar whose tag does not fit its text, such as !!int abc.
UndecodableNode ==
  [Node("scalar", OtherKey("Null", 0), <<>>) EXCEPT !.decodeErr = TRUE]

\* The error n.Decode(&value) returns for the node id of the graph t.
DecodeErr(t, id) ==
  IF t[id].decodeErr THEN Err("decode key", -1) ELSE NoErr

\* n.Decode(&value) for the node id of the graph t
KeyOf(t, id) == t[id].key

\* type mapKey
mapKey(index, value) == [index |-> index, value |-> value]

\* m.Swap(i, j)
Swap(m, i, j) == [m EXCEPT ![i] = m[j], ![j] = m[i]]

RECURSIVE InsertBackUnstable(_, _)
\* Mutant: a key also moves in front of a key it is not less than, as long
\* as that key is not less than it.
InsertBackUnstable(m, j) ==
  IF j > 1 /\ ~Less(m[j - 1].value, m[j].value)
    THEN InsertBackUnstable(Swap(m, j, j - 1), j - 1)
    ELSE m

RECURSIVE InsertBack(_, _)
\* for j := i; j > a && data.Less(j, j-1); j-- { data.Swap(j, j-1) }
InsertBack(m, j) ==
  IF j > 1 /\ Less(m[j].value, m[j - 1].value)
    THEN InsertBack(Swap(m, j, j - 1), j - 1)
    ELSE m

RECURSIVE insertionSort(_, _)
\* sort.Stable(keys) on up to twenty keys: one insertion sort.
insertionSort(m, i) ==
  IF i > Len(m) THEN m ELSE insertionSort(InsertBack(m, i), i + 1)

\* keys after sort.Stable(keys)
SortedKeys(t, content) ==
  LET entries == Len(content) \div 2
      keys == [i \in 1..entries |->
                 mapKey(i - 1, KeyOf(t, content[(i - 1) * 2 + 1]))]
  IN insertionSort(keys, 2)

\* Mutant: the first error of n.Decode(&value) is handed to the caller.
sortMapKeysErrFirst(t, content) ==
  LET bad == {i \in 1..(Len(content) \div 2) :
                DecodeErr(t, content[2 * i - 1]) # NoErr}
  IN IF bad = {} THEN NoErr
     ELSE DecodeErr(t, content[2 * (CHOOSE i \in bad : \A j \in bad : i <= j) - 1])

\* The error normalizeNode receives from sortMapKeys(content): the result
\* of n.Decode(&value) is dropped and the function has no error to return.
sortMapKeysErr(t, content) == NoErr

\* sortMapKeys(content): newContent, 0 standing for a nil entry.
sortMapKeys(t, content) ==
  LET keys == SortedKeys(t, content) IN
  [j \in 1..Len(content) |->
     IF (j + 1) \div 2 <= Len(keys)
       THEN content[keys[(j + 1) \div 2].index * 2 + 2 - (j % 2)]
       ELSE 0]

\* ------------------------------------------------------------ normalizeNode
\* node.Style = 0
ResetStyle(n) == [n EXCEPT !.style = 0]

\* Mutant: the foot comment is kept.
StripCommentsKeepFoot(n, preserveComments) ==
  IF ~preserveComments THEN [n EXCEPT !.head = "", !.line = ""] ELSE n

\* if !preserveComments { node.HeadComment = "" ... }
StripComments(n, preserveComments) ==
  IF ~preserveComments
    THEN [n EXCEPT !.head = "", !.line = "", !.foot = ""]
    ELSE n

\* Mutant: the content of a sequence is sorted like the one of a mapping.
IsMappingOrSequence(n) == n.kind \in {"map", "seq"}

\* node.Kind == yaml.MappingNode
IsMapping(n) == n.kind = "map"

\* Mutant: the walk goes on through the node an alias refers to.
ChildrenThroughAlias(n) == IF n.alias # 0 THEN <<n.alias>> ELSE n.content

\* node.Content, the nodes the loop of normalizeNode ranges over.
Children(n) == n.content

RECURSIVE normalizeNode(_, _, _)
RECURSIVE normalizeChildren(_, _, _, _)
\* for _, node := range node.Content { normalizeNode(node, ...) }, from the
\* i-th child on: the graph after the calls.
normalizeChildren(t, content, i, preserveComments) ==
  IF i > Len(content) THEN t
  ELSE normalizeChildren(normalizeNode(t, content[i], preserveComments),
                         content, i + 1, preserveComments)

\* normalizeNode(node, preserveComments) run to its return on the node id:
\* the graph it leaves.
normalizeNode(t, id, preserveComments) ==
  LET entered == [t EXCEPT ![id] = StripComments(ResetStyle(@), preserveComments)]
      walked == normalizeChildren(entered, Children(entered[id]), 1,
                                  preserveComments)
  IN IF IsMapping(walked[id])
          /\ sortMapKeysErr(walked, walked[id].content) = NoErr
       THEN [walked EXCEPT ![id].content = sortMapKeys(walked, @)]
       ELSE walked

\* One active call of normalizeNode: its node and the position of its loop
\* over node.Content (0: the call has just been entered).
Frame(id, next) == [node |-> id, next |-> next]

Top == stack[Len(stack)]

NodeFrame ==
  UNCHANGED <<doc0, preserve, keyVars, normVars, fileVars, runVars,
              batchVars, ioVars>>

\* normalizeNode is entered: the style is reset, the comments stripped.
NodeEnter ==
  /\ stack # <<>> /\ Top.next = 0
  /\ tree' = [tree EXCEPT ![Top.node] =
                StripComments(ResetStyle(@), preserve)]
  /\ visits' = [visits EXCEPT ![Top.node] = @ + 1]
  /\ stack' = [stack EXCEPT ![Len(stack)].next = 1]
  /\ UNCHANGED nodeErr
  /\ NodeFrame

\* for _, node := range node.Content { normalizeNode(node, ...) }
NodeChild ==
  /\ stack # <<>>
  /\ Top.next \in 1..Len(Children(tree[Top.node]))
  /\ stack' = Append([stack EXCEPT ![Len(stack)].next = @ + 1],
                     Frame(Children(tree[Top.node])[Top.next], 0))
  /\ UNCHANGED <<tree, visits, nodeErr>>
  /\ NodeFrame

\* The children are done: a mapping has its content sorted; return.
NodeReturn ==
  /\ stack # <<>>
  /\ Top.next > Len(Children(tree[Top.node]))
  /\ LET err == IF IsMapping(tree[Top.node])
                  THEN sortMapKeysErr(tree, tree[Top.node].content)
                  ELSE NoErr
     IN IF err # NoErr
          THEN /\ nodeErr' = err
               /\ stack' = <<>>
               /\ UNCHANGED tree
          ELSE /\ tree' = IF IsMapping(tree[Top.node])
                            THEN [tree EXCEPT
                                    ![Top.node].content = sortMapKeys(tree, @)]
                            ELSE tree
               /\ stack' = SubSeq(stack, 1, Len(stack) - 1)
               /\ UNCHANGED nodeErr
  /\ UNCHANGED visits
  /\ NodeFrame

\* Stands in SortKeys for a key whose node fails to decode.
Undecodable == OtherKey("Undecodable", 0)

\* The keys the mappings of the documents are built from: 1, 1.0, true,
\* .nan, "a2", "a10", two sequence keys and a key that fails to decode.
SortKeys ==
  {IntKey(1), FloatKey(2), BoolKey(TRUE), NaNKey,
   StringKey(<<97, 50>>), StringKey(<<97, 49, 48>>),
   OtherKey("Seq", 1), OtherKey("Seq", 2), Undecodable}

\* The node of a key or of a sequence item with the decoded value k; the
\* items of a sequence key are left out.
KeyNode(k) ==
  IF k = Undecodable THEN UndecodableNode
  ELSE Node(IF k.t = "Seq" THEN "seq" ELSE "scalar", k, <<>>)

\* The key and value nodes of a mapping with the keys ks.
EntryNodes(ks) ==
  [j \in 1..(2 * Len(ks)) |->
     IF j % 2 = 1 THEN KeyNode(ks[(j + 1) \div 2])
     ELSE Node("scalar", IntKey(j \div 2), <<>>)]

ContentIds(base, n) == [j \in 1..n |-> base + j]

DocumentNode == Node("doc", OtherKey("Null", 0), <<2>>)

\* A document that is one mapping with the keys ks.
GraphMap(ks) ==
  <<DocumentNode,
    Node("map", OtherKey("Map", 2), ContentIds(2, 2 * Len(ks)))>>
    \o EntryNodes(ks)

\* A document that is one sequence of the scalars ks.
GraphSeq(ks) ==
  <<DocumentNode, Node("seq", OtherKey("Seq", 2), ContentIds(2, Len(ks)))>>
    \o [j \in 1..Len(ks) |-> KeyNode(ks[j])]

\* A document {b: [0, {ks...}], a: 1}.
GraphNested(ks) ==
  <<DocumentNode,
    Node("map", OtherKey("Map", 2), <<3, 4, 7, 8>>),
    Node("scalar", StringKey(<<98>>), <<>>),
    Node("seq", OtherKey("Seq", 4), <<5, 6>>),
    Node("scalar", IntKey(0), <<>>),
    Node("map", OtherKey("Map", 6), ContentIds(8, 2 * Len(ks))),
    Node("scalar", StringKey(<<97>>), <<>>),
    Node("scalar", IntKey(1), <<>>)>>
    \o EntryNodes(ks)

\* A document {a: &x {ks...}, b: *x}: the value of b is an alias node that
\* refers to the mapping anchored at a.
GraphAlias(ks) ==
  <<DocumentNode,
    Node("map", OtherKey("Map", 2), <<3, 4, 5, 6>>),
    Node("scalar", StringKey(<<97>>), <<>>),
    Node("map", OtherKey("Map", 4), ContentIds(6, 2 * Len(ks))),
    Node("scalar", StringKey(<<98>>), <<>>),
    [Node("alias", OtherKey("Map", 4), <<>>) EXCEPT !.alias = 4]>>
    \o EntryNodes(ks)

\* The node as written in a source with a style of its own and comments.
Dressed(n, id) ==
  [n EXCEPT !.style = 1 + (id % 2),
            !.head = IF id % 2 = 1 THEN "# head" ELSE "",
            !.line = IF id % 2 = 0 THEN "# line" ELSE "",
            !.foot = "# foot"]

\* The document of the given shape over the keys ks, bare or dressed.
Graph(shape, ks, dressed) ==
  LET g == CASE shape = "map" -> GraphMap(ks)
             [] shape = "seq" -> GraphSeq(ks)
             [] shape = "alias" -> GraphAlias(ks)
             [] OTHER -> GraphNested(ks)
  IN IF dressed THEN [id \in 1..Len(g) |-> Dressed(g[id], id)] ELSE g

InitNode ==
  /\ NormIdle /\ FileIdle /\ KeysIdle /\ RunIdle /\ BatchIdle
  /\ out = <<>> /\ ret = NoErr
  /\ \E ks \in SeqsUpTo(SortKeys, MaxEntries),
        shape \in {"map", "seq", "nested", "alias"}, dressed \in BOOLEAN :
       /\ dressed \/ shape = "map"
       /\ shape = "alias" => Len(ks) < MaxEntries
       /\ doc0 = Graph(shape, ks, dressed)
  /\ tree = doc0
  /\ preserve \in BOOLEAN
  /\ stack = <<Frame(1, 0)>>
  /\ visits = [id \in 1..Len(doc0) |-> 0]
  /\ nodeErr = NoErr

NextNode == NodeEnter \/ NodeChild \/ NodeReturn

SpecNode == InitNode /\ [][NextNode]_vars

\* ------------------------------------------------------------- batch calls
ErrCanceled == Err("context canceled", -1)
ErrWrite == Err("write", -1)
ErrFile(i) == Err("file", i)

\* Mutant: every queued file carries index 0.
fileInfoStaleIndex(filename, index) == [filename |-> filename, index |-> 0]

\* type fileInfo, type fileResult
fileInfo(filename, index) == [filename |-> filename, index |-> index]
fileResult(filename, content, index) ==
  [filename |-> filename, content |-> content, index |-> index]

\* The loop variable of a worker outside an iteration.
NoInfo == fileInfo(0, 0)

\* Mutant: the workers look at the group's own cancellation only.
WorkersCtxErrGroupOnly == workersCancel

\* Mutant: the workers look at the caller's context, not at the group's.
WorkersCtxErrParentOnly == ctxDone

\* workersCtx.Err() != nil: the parent is cancelled or the group cancelled.
WorkersCtxErr == ctxDone \/ workersCancel

\* readerCtx.Err() != nil while the sequencer runs: only the parent counts,
\* the reader group cancels its context when its one goroutine has returned.
ReaderCtxErr == ctxDone

Note(e) == IF firstErr = NoErr THEN e ELSE firstErr

\* Mutant: the worker stops on the failure but its error is not kept.
WorkerReturnErrSwallowed(w, e) ==
  /\ wPc' = [wPc EXCEPT ![w] = "done"]
  /\ workersErr' = workersErr
  /\ workersCancel' = workersCancel
  /\ firstErr' = Note(e)

\* A worker's function returns e: errgroup keeps the first error and cancels.
WorkerReturnErr(w, e) ==
  /\ wPc' = [wPc EXCEPT ![w] = "done"]
  /\ workersErr' = IF workersErr = NoErr THEN e ELSE workersErr
  /\ workersCancel' = TRUE
  /\ firstErr' = Note(e)

\* A worker's function returns the error of processing file i.
WorkerFileErr(w, i) ==
  /\ WorkerReturnErr(w, ErrFile(i))
  /\ failed' = failed \cup {i}

\* Mutant: the channels hold half of the files.
ChanCapHalf == (N + 1) \div 2

\* make(chan ..., len(files)): the capacity of filesChan and of resultsChan.
ChanCap == N

\* filesChan <- file, one per iteration of the caller's loop (the send waits
\* while filesChan is full).
MainEnqueue ==
  /\ mainPc = "enqueue" /\ enq < N
  /\ Len(filesChan) < ChanCap
  /\ filesChan' = Append(filesChan, fileInfo(files[enq + 1], enq))
  /\ enq' = enq + 1
  /\ UNCHANGED <<libVars, runVars, ioVars, mode, files, atCall, numWorkers, fs,
                 ctxDone, mainPc, filesClosed, resultsChan, resultsClosed,
                 wPc, wInfo, wData, workersErr, workersCancel, sPc, nextIndex,
                 results, readerErr, firstErr, recvCount, procCount,
                 failed, heldBack, written>>

\* close(filesChan)
MainCloseFiles ==
  /\ mainPc = "enqueue" /\ enq = N
  /\ filesClosed' = TRUE
  /\ mainPc' = "waitWorkers"
  /\ UNCHANGED <<libVars, runVars, ioVars, mode, files, atCall, numWorkers, fs,
                 ctxDone, enq, filesChan, resultsChan, resultsClosed,
                 wPc, wInfo, wData, workersErr, workersCancel, sPc, nextIndex,
                 results, readerErr, firstErr, recvCount, procCount,
                 failed, heldBack, written>>

\* g.Wait() / workers.Wait(): all workers have returned; Wait cancels the
\* group's context and returns its first error.  normalizeInPlace returns it;
\* normalizeTo returns it when non-nil and closes resultsChan otherwise.
MainWaitWorkers ==
  /\ mainPc = "waitWorkers"
  /\ \A w \in Workers : wPc[w] = "done"
  /\ workersCancel' = TRUE
  /\ IF workersErr # NoErr \/ mode = "inplace"
       THEN /\ ret' = workersErr
            /\ mainPc' = "done"
            /\ UNCHANGED resultsClosed
       ELSE /\ resultsClosed' = TRUE
            /\ mainPc' = "waitReader"
            /\ UNCHANGED ret
  /\ UNCHANGED <<libVars, runVars, out, mode, files, atCall, numWorkers, fs,
                 ctxDone, enq, filesChan, filesClosed, resultsChan,
                 wPc, wInfo, wData, workersErr, sPc, nextIndex,
                 results, readerErr, firstErr, recvCount, procCount,
                 failed, heldBack, written>>

\* return reader.Wait()
MainWaitReader ==
  /\ mainPc = "waitReader"
  /\ sPc = "done"
  /\ ret' = readerErr
  /\ mainPc' = "done"
  /\ UNCHANGED <<libVars, runVars, out, mode, files, atCall, numWorkers, fs,
                 ctxDone, enq, filesChan, filesClosed, resultsChan,
                 resultsClosed, wPc, wInfo, wData, workersErr, workersCancel,
                 sPc, nextIndex, results, readerErr, firstErr, recvCount,
                 procCount, failed, heldBack, written>>

\* Mutant: the worker reads the head of the queue and leaves it queued.
WorkerRecvPeek(w) ==
  /\ wPc[w] = "recv"
  /\ filesChan # <<>>
  /\ LET info == Head(filesChan) IN
     /\ filesChan' = filesChan
     /\ recvCount' = [recvCount EXCEPT ![info.index] = @ + 1]
     /\ IF WorkersCtxErr
          THEN /\ WorkerReturnErr(w, ErrCanceled)
               /\ UNCHANGED wInfo
          ELSE /\ wPc' = [wPc EXCEPT ![w] = "file"]
               /\ wInfo' = [wInfo EXCEPT ![w] = info]
               /\ UNCHANGED <<workersErr, workersCancel, firstErr>>
  /\ UNCHANGED <<libVars, runVars, ioVars, mode, files, atCall, numWorkers, fs,
                 ctxDone, mainPc, enq, filesClosed, resultsChan,
                 resultsClosed, wData, sPc, nextIndex, results, readerErr,
                 procCount,
                 failed, heldBack, written>>

\* for info := range filesChan: a worker receives the next index; it returns
\* the context's error when the context is done, else it starts on the file.
WorkerRecv(w) ==
  /\ wPc[w] = "recv"
  /\ filesChan # <<>>
  /\ LET info == Head(filesChan) IN
     /\ filesChan' = Tail(filesChan)
     /\ recvCount' = [recvCount EXCEPT ![info.index] = @ + 1]
     /\ IF WorkersCtxErr
          THEN /\ WorkerReturnErr(w, ErrCanceled)
               /\ UNCHANGED wInfo
          ELSE /\ wPc' = [wPc EXCEPT ![w] = "file"]
               /\ wInfo' = [wInfo EXCEPT ![w] = info]
               /\ UNCHANGED <<workersErr, workersCancel, firstErr>>
  /\ UNCHANGED <<libVars, runVars, ioVars, mode, files, atCall, numWorkers, fs,
                 ctxDone, mainPc, enq, filesClosed, resultsChan,
                 resultsClosed, wData, sPc, nextIndex, results, readerErr,
                 procCount,
                 failed, heldBack, written>>

\* The range loop ends: filesChan is closed and drained; return nil.
WorkerExit(w) ==
  /\ wPc[w] = "recv"
  /\ filesChan = <<>> /\ filesClosed
  /\ wPc' = [wPc EXCEPT ![w] = "done"]
  /\ UNCHANGED <<libVars, runVars, ioVars, mode, files, atCall, numWorkers, fs,
                 ctxDone, mainPc, enq, filesChan, filesClosed, resultsChan,
                 resultsClosed, wInfo, wData, workersErr, workersCancel, sPc,
                 nextIndex, results, readerErr, firstErr, recvCount,
                 procCount,
                 failed, heldBack, written>>

\* normalizeTo's worker body: os.Open, Normalize into a private buffer,
\* file.Close, then either return the error or send the result (the send
\* waits while resultsChan is full).
WorkerNormalize(w) ==
  /\ mode = "combined"
  /\ wPc[w] = "file"
  /\ LET filename == wInfo[w].filename
         i == wInfo[w].index
         f == fs[filename]
         r == Normalize(f.data)
     IN
     /\ (f.exists /\ r.err = NoErr) => Len(resultsChan) < ChanCap
     /\ procCount' = [procCount EXCEPT ![i] = @ + 1]
     /\ wInfo' = [wInfo EXCEPT ![w] = NoInfo]
     /\ IF ~f.exists \/ r.err # NoErr
          THEN /\ WorkerFileErr(w, i)
               /\ UNCHANGED resultsChan
          ELSE /\ resultsChan' = Append(resultsChan, fileResult(filename, r.out, i))
               /\ wPc' = [wPc EXCEPT ![w] = "recv"]
               /\ UNCHANGED <<workersErr, workersCancel, firstErr, failed>>
  /\ UNCHANGED <<libVars, runVars, ioVars, mode, files, atCall, numWorkers, fs,
                 ctxDone, mainPc, enq, filesChan, filesClosed,
                 resultsClosed, wData, sPc, nextIndex, results,
                 readerErr, recvCount,
                 heldBack, written>>

\* normalizeInPlace's worker body, first half: NormalizeFile stats and reads
\* the file and reopens it truncating (the path of a file up to the size
\* threshold; stat, read and open are taken as one step).  In this mode the
\* queue carries the file names only, the index is kept for the history.
WorkerOpenFile(w) ==
  /\ mode = "inplace"
  /\ wPc[w] = "file"
  /\ LET i == wInfo[w].index
         p == wInfo[w].filename
     IN
     /\ procCount' = [procCount EXCEPT ![i] = @ + 1]
     /\ IF ~fs[p].exists
          THEN /\ WorkerFileErr(w, i)
               /\ wInfo' = [wInfo EXCEPT ![w] = NoInfo]
               /\ UNCHANGED <<fs, wData>>
          ELSE /\ wData' = [wData EXCEPT ![w] = fs[p].data]
               /\ fs' = [fs EXCEPT ![p] = File(<<>>)]
               /\ wPc' = [wPc EXCEPT ![w] = "write"]
               /\ UNCHANGED wInfo
               /\ UNCHANGED <<workersErr, workersCancel, firstErr, failed>>
  /\ UNCHANGED <<libVars, runVars, ioVars, mode, files, atCall, numWorkers,
                 ctxDone, mainPc, enq, filesChan, filesClosed, resultsChan,
                 resultsClosed, sPc, nextIndex, results,
                 readerErr, recvCount,
                 heldBack, written>>

\* Second half: Normalize writes the open file, which is flushed and closed;
\* the bytes written before a failure stay in the file.
WorkerWriteFile(w) ==
  /\ mode = "inplace"
  /\ wPc[w] = "write"
  /\ LET i == wInfo[w].index
         p == wInfo[w].filename
         r == Normalize(wData[w])
     IN
     /\ fs' = [fs EXCEPT ![p] = File(AsStream(r.out))]
     /\ wInfo' = [wInfo EXCEPT ![w] = NoInfo]
     /\ wData' = [wData EXCEPT ![w] = <<>>]
     /\ IF r.err # NoErr
          THEN WorkerFileErr(w, i)
          ELSE /\ wPc' = [wPc EXCEPT ![w] = "recv"]
               /\ UNCHANGED <<workersErr, workersCancel, firstErr, failed>>
  /\ UNCHANGED <<libVars, runVars, ioVars, mode, files, atCall, numWorkers,
                 ctxDone, mainPc, enq, filesChan, filesClosed, resultsChan,
                 resultsClosed, sPc, nextIndex, results,
                 readerErr, recvCount, procCount,
                 heldBack, written>>

\* ---------------------------------------------------------------- sequencer
\* The reader goroutine returns e.
SeqReturnErr(e) ==
  /\ sPc' = "done"
  /\ readerErr' = e
  /\ firstErr' = Note(e)

\* Mutant: the separator line is written before every file, the first too.
FlushPcSepAlways(held, next) ==
  IF next \in DOMAIN held THEN "sep" ELSE "recv"

\* Mutant: the flush loop is never entered, the results stay in the map.
FlushPcNone(held, next) == "recv"

\* Where the flush loop goes when results[next] is looked up.
FlushPc(held, next) ==
  IF next \in DOMAIN held
    THEN IF next > 0 THEN "sep" ELSE "doc"
    ELSE "recv"

\* for result := range resultsChan: receive, check the context, store the
\* content under its index and enter the flush loop if it is the next index.
SeqRecv ==
  /\ sPc = "recv"
  /\ resultsChan # <<>>
  /\ LET result == Head(resultsChan)
         held == [j \in DOMAIN results \cup {result.index} |->
                    IF j = result.index THEN result.content ELSE results[j]]
     IN
     /\ resultsChan' = Tail(resultsChan)
     /\ heldBack' = (heldBack \/ result.index # nextIndex)
     /\ IF ReaderCtxErr
          THEN /\ SeqReturnErr(ErrCanceled)
               /\ UNCHANGED results
          ELSE /\ results' = held
               /\ sPc' = IF result.index = nextIndex
                           THEN FlushPc(held, nextIndex) ELSE "recv"
               /\ UNCHANGED <<readerErr, firstErr>>
  /\ UNCHANGED <<libVars, runVars, ioVars, mode, files, atCall, numWorkers, fs,
                 ctxDone, mainPc, enq, filesChan, filesClosed,
                 resultsClosed, wPc, wInfo, wData, workersErr, workersCancel,
                 nextIndex, recvCount, procCount,
                 failed, written>>

\* The range loop ends: resultsChan is closed and drained; return nil.
SeqExit ==
  /\ sPc = "recv"
  /\ resultsChan = <<>> /\ resultsClosed
  /\ sPc' = "done"
  /\ UNCHANGED <<libVars, runVars, ioVars, mode, files, atCall, numWorkers, fs,
                 ctxDone, mainPc, enq, filesChan, filesClosed, resultsChan,
                 resultsClosed, wPc, wInfo, wData, workersErr, workersCancel,
                 nextIndex, results, readerErr, firstErr, recvCount,
                 procCount,
                 failed, heldBack, written>>

\* w.Write([]byte("---\n")) succeeds or fails.
SeqWriteSep ==
  /\ sPc = "sep"
  /\ \/ /\ out' = Append(out, Sep)
        /\ sPc' = "doc"
        /\ UNCHANGED <<readerErr, firstErr>>
     \/ /\ SeqReturnErr(ErrWrite)
        /\ UNCHANGED out
  /\ UNCHANGED <<libVars, runVars, ret, mode, files, atCall, numWorkers, fs,
                 ctxDone, mainPc, enq, filesChan, filesClosed, resultsChan,
                 resultsClosed, wPc, wInfo, wData, workersErr, workersCancel,
                 nextIndex, results, recvCount, procCount,
                 failed, heldBack, written>>

\* w.Write(doc) succeeds or fails; delete(results, nextIndex); nextIndex++.
SeqWriteDoc ==
  /\ sPc = "doc"
  /\ \/ LET held == [j \in DOMAIN results \ {nextIndex} |-> results[j]] IN
        /\ out' = out \o results[nextIndex]
        /\ results' = held
        /\ nextIndex' = nextIndex + 1
        /\ written' = Append(written, nextIndex)
        /\ sPc' = FlushPc(held, nextIndex + 1)
        /\ UNCHANGED <<readerErr, firstErr>>
     \/ /\ SeqReturnErr(ErrWrite)
        /\ UNCHANGED <<out, results, nextIndex, written>>
  /\ UNCHANGED <<libVars, runVars, ret, mode, files, atCall, numWorkers, fs,
                 ctxDone, mainPc, enq, filesChan, filesClosed, resultsChan,
                 resultsClosed, wPc, wInfo, wData, workersErr, workersCancel,
                 recvCount, procCount,
                 failed, heldBack>>

\* The caller's context is cancelled while the batch call runs.
CancelCtx ==
  /\ mainPc \notin {"off", "done"}
  /\ ~ctxDone
  /\ ctxDone' = TRUE
  /\ UNCHANGED <<libVars, runVars, ioVars, mode, files, atCall, numWorkers, fs,
                 mainPc, enq, filesChan, filesClosed, resultsChan,
                 resultsClosed, wPc, wInfo, wData, workersErr, workersCancel,
                 sPc, nextIndex, results, readerErr, firstErr, recvCount,
                 procCount,
                 failed, heldBack, written>>

\* The state when normalizeInPlace / normalizeTo has started its goroutines
\* (the caller's context is cancelled already, or not).
BatchStart(m, fl, nw) ==
  /\ mode = m /\ files = fl /\ numWorkers = nw
  /\ mainPc = "enqueue" /\ enq = 0
  /\ filesChan = <<>> /\ filesClosed = FALSE
  /\ resultsChan = <<>> /\ resultsClosed = FALSE
  /\ wPc = [w \in 1..nw |-> "recv"]
  /\ wInfo = [w \in 1..nw |-> NoInfo]
  /\ wData = [w \in 1..nw |-> <<>>]
  /\ workersErr = NoErr /\ workersCancel = FALSE
  /\ sPc = IF m = "combined" THEN "recv" ELSE "off"
  /\ nextIndex = 0 /\ results = <<>> /\ readerErr = NoErr
  /\ firstErr = NoErr
  /\ recvCount = [i \in 0..(Len(fl) - 1) |-> 0]
  /\ procCount = [i \in 0..(Len(fl) - 1) |-> 0]
  /\ failed = {} /\ heldBack = FALSE /\ written = <<>>

\* The paths of a list, named in the order of their first occurrence (the
\* names of the paths are arbitrary, their contents are chosen independently).
FirstOccurrenceOrder(fl) ==
  \A j \in 1..Len(fl) :
    fl[j] = 1 \/ \E h \in 1..(j - 1) : fl[h] >= fl[j] - 1

FileLists ==
  {fl \in SeqsUpTo(Paths, MaxFiles) : fl # <<>> /\ FirstOccurrenceOrder(fl)}

Range(q) == {q[j] : j \in 1..Len(q)}

\* The file systems of a file list: a content for every path it names.
FileSystems(fl) ==
  {f \in [Paths -> UNION {FileContents(p) : p \in Paths}] :
     \A p \in Paths :
       IF p \in Range(fl) THEN f[p] \in FileContents(p) ELSE f[p] = Missing}

Init ==
  /\ LibIdle /\ RunIdle
  /\ out = <<>> /\ ret = NoErr
  /\ \E m \in {"inplace", "combined"}, fl \in FileLists :
       /\ \E nw \in WorkerCounts(Len(fl)) : BatchStart(m, fl, nw)
       /\ fs \in FileSystems(fl)
       /\ ctxDone \in BOOLEAN
       /\ atCall = [fs |-> fs, ctxDone |-> ctxDone]

\* --------------------------------------------------------------------- run
\* if cmd.Workers <= 0 {...}; if len(cmd.Files) < cmd.Workers {...}
RunWorkers ==
  /\ runPc = "start"
  /\ numWorkers' = WorkerCount(numWorkers, numCPU, N)
  /\ runPc' = "dispatch"
  /\ UNCHANGED <<libVars, ioVars, requested, numCPU, stdin, mode, files, atCall, fs,
                 ctxDone, mainPc, enq, filesChan, filesClosed, resultsChan,
                 resultsClosed, wPc, wInfo, wData, workersErr, workersCancel,
                 sPc, nextIndex, results, readerErr, firstErr, recvCount,
                 procCount,
                 failed, heldBack, written>>

\* len(cmd.Files) == 0: return normalizer.Normalize(stdin, stdout)
RunStdin ==
  /\ runPc = "dispatch"
  /\ N = 0
  /\ LET r == Normalize(stdin) IN
     /\ out' = out \o r.out
     /\ ret' = r.err
  /\ runPc' = "done"
  /\ UNCHANGED <<libVars, requested, numCPU, stdin, batchVars>>

\* return normalizeInPlace(...) / normalizeTo(...): the call starts its
\* goroutines.
RunBatch ==
  /\ runPc = "dispatch"
  /\ N > 0
  /\ runPc' = "batch"
  /\ mainPc' = "enqueue"
  /\ wPc' = [w \in Workers |-> "recv"]
  /\ wInfo' = [w \in Workers |-> NoInfo]
  /\ wData' = [w \in Workers |-> <<>>]
  /\ sPc' = IF mode = "combined" THEN "recv" ELSE "off"
  /\ recvCount' = [i \in Indices |-> 0]
  /\ procCount' = [i \in Indices |-> 0]
  /\ UNCHANGED <<libVars, ioVars, requested, numCPU, stdin, mode, files, atCall,
                 numWorkers, fs, ctxDone, enq, filesChan, filesClosed,
                 resultsChan, resultsClosed, workersErr, workersCancel,
                 nextIndex, results, readerErr, firstErr,
                 failed, heldBack, written>>

\* run called with a parsed command line: -j, -i, the files, standard input.
InitRun ==
  /\ LibIdle
  /\ out = <<>> /\ ret = NoErr
  /\ runPc = "start"
  /\ requested \in (-1)..MaxRequested
  /\ numCPU \in 1..MaxCPU
  /\ numWorkers = requested
  /\ mode \in {"inplace", "combined"}
  /\ files \in FileLists \cup {<<>>}
  /\ fs \in FileSystems(files)
  /\ atCall = [fs |-> fs, ctxDone |-> FALSE]
  /\ stdin \in IF files = <<>> THEN Streams ELSE {<<>>}
  /\ BatchOff

NextRun == RunWorkers \/ RunStdin \/ RunBatch

SpecRun == InitRun /\ [][NextRun]_vars

Next ==
  \/ MainEnqueue \/ MainCloseFiles \/ MainWaitWorkers \/ MainWaitReader
  \/ \E w \in Workers : WorkerRecv(w)
  \/ \E w \in Workers : WorkerExit(w)
  \/ \E w \in Workers : WorkerNormalize(w)
  \/ \E w \in Workers : WorkerOpenFile(w)
  \/ \E w \in Workers : WorkerWriteFile(w)
  \/ SeqRecv \/ SeqExit \/ SeqWriteSep \/ SeqWriteDoc
  \/ CancelCtx

Spec == Init /\ [][Next]_vars

\* The batch calls on files each of which is missing, holds one document or
\* is malformed.
InitFair ==
  /\ Init
  /\ \A p \in Paths :
       fs[p] \in {Missing, File(<<Item(DocId(p, 1), "ok")>>),
                  File(<<Item(DocId(p, 1), "decode")>>)}

\* The steps of the caller, of worker w and of the sequencer.
MainStep ==
  MainEnqueue \/ MainCloseFiles \/ MainWaitWorkers \/ MainWaitReader
WorkerStep(w) ==
  \/ WorkerRecv(w) \/ WorkerExit(w) \/ WorkerNormalize(w)
  \/ WorkerOpenFile(w) \/ WorkerWriteFile(w)
SeqStep == SeqRecv \/ SeqExit \/ SeqWriteSep \/ SeqWriteDoc

\* The Go scheduler runs every goroutine that can take a step: the caller,
\* each worker and the sequencer are weakly fair; the cancellation of the
\* caller's context may or may not happen.
SpecFair ==
  /\ InitFair /\ [][Next]_vars
  /\ WF_vars(MainStep)
  /\ \A w \in 1..MaxFiles : WF_vars(w \in Workers /\ WorkerStep(w))
  /\ WF_vars(SeqStep)

\* ------------------------------------------------------------- properties
DocsOf(bytes) == SelectSeq(bytes, LAMBDA t : t # Sep)

\* The canonical bytes of the file at index i (combined mode reads only).
Result(i) == Normalize(fs[PathOf(i)].data).out

RECURSIVE DocsInOrder(_)
\* The documents of the files 0..n-1, file after file.
DocsInOrder(n) ==
  IF n = 0 THEN <<>> ELSE DocsInOrder(n - 1) \o DocsOf(Result(n - 1))

RECURSIVE Joined(_)
\* result[0], then the separator line and result[i] for every i in 1..n-1.
Joined(n) ==
  IF n = 0 THEN <<>>
  ELSE IF n = 1 THEN Result(0)
  ELSE Joined(n - 1) \o <<Sep>> \o Result(n - 1)

CombinedSuccess == mode = "combined" /\ mainPc = "done" /\ ret = NoErr

\* C1: a successful combined call has written the results of the files in
\* ascending index order 0..N-1, whatever the number of workers and the order
\* in which the results arrived.
C1_OutputInInputOrder ==
  CombinedSuccess =>
    /\ written = [j \in 1..N |-> j - 1]
    /\ DocsOf(out) = DocsInOrder(N)

C1_Witness ==
  /\ CombinedSuccess
  /\ N >= 2 /\ numWorkers >= 2
  /\ heldBack
  /\ \A i \in Indices : Result(i) # <<>>

\* C2: a successful combined call writes result[0] and then, for every index
\* i >= 1, the separator line followed by result[i], also when result[i] is
\* empty: N-1 separators, none before file 0.
C2_SeparatorBetweenFiles == CombinedSuccess => out = Joined(N)

C2_Witness ==
  /\ CombinedSuccess
  /\ N >= 2
  /\ \E i \in Indices : i >= 1 /\ Result(i) = <<>>

\* C3: in the combined output no separator line precedes the first document
\* and a combined output of one document holds no separator line.
C3_NoSeparatorBeforeFirstDocument ==
  CombinedSuccess =>
    /\ Len(DocsOf(out)) >= 1 => out[1] # Sep
    /\ Len(DocsOf(out)) = 1 => out = DocsOf(out)

\* The file at index i is missing or malformed.
BadFile(i) ==
  \/ ~fs[PathOf(i)].exists
  \/ Normalize(fs[PathOf(i)].data).err # NoErr

\* C4: a batch call in which a file failed returns an error, in both modes;
\* in combined mode (where the files stay as they were) a call that returns
\* nil had no missing or malformed file among its arguments.
C4_FailFast ==
  mainPc = "done" =>
    /\ failed # {} => ret # NoErr
    /\ (mode = "combined" /\ \E i \in Indices : BadFile(i)) => ret # NoErr

C4_Witness ==
  /\ mainPc = "done" /\ mode = "inplace"
  /\ N >= 2 /\ numWorkers >= 2
  /\ failed # {} /\ ret # NoErr
  /\ \E i \in Indices : i \notin failed /\ procCount[i] = 1

\* C5: every queued file is dequeued by at most one worker and processed at
\* most once; in a successful run every file is dequeued and processed
\* exactly once.
C5_EachFileOnce ==
  /\ \A i \in DOMAIN recvCount : recvCount[i] <= 1 /\ procCount[i] <= 1
  /\ (mainPc = "done" /\ ret = NoErr) =>
       \A i \in Indices : recvCount[i] = 1 /\ procCount[i] = 1

C5_Witness ==
  /\ mainPc = "done" /\ ret = NoErr
  /\ N >= 2 /\ numWorkers >= 2
  /\ \A i \in Indices : procCount[i] = 1

\* Worker w has the file at path p open (in-place mode).
HasOpen(w, p) == wPc[w] = "write" /\ wInfo[w].filename = p

\* C6: in in-place mode no two workers have the same path open at the same
\* time, also when the argument list names a path more than once.
C6_NoPathOpenTwice ==
  mode = "inplace" =>
    \A w1 \in DOMAIN wPc, w2 \in DOMAIN wPc, p \in Paths :
      (HasOpen(w1, p) /\ HasOpen(w2, p)) => w1 = w2

\* C7: the error a batch call returns is the first error of the run.
C7_FirstErrorReturned ==
  (mainPc = "done" /\ firstErr # NoErr) => ret = firstErr

Coerced == IF requested <= 0 THEN numCPU ELSE requested

\* C8: the number of workers run starts is min(requested, N), a non-positive
\* requested value replaced by the number of CPUs first; it is between 1 and N
\* when there is a file, and a run with a non-positive -j on an input without
\* a failing document returns no error.
C8_WorkerCount ==
  runPc # "start" =>
    /\ numWorkers = Min(Coerced, N)
    /\ N >= 1 => (1 <= numWorkers /\ numWorkers <= N)
    /\ (runPc = "done" /\ requested <= 0
          /\ \A j \in 1..Len(stdin) : stdin[j].k \in {"ws", "ok"}) =>
         ret = NoErr

C8_Witness ==
  /\ runPc = "batch"
  /\ requested <= 0
  /\ numCPU < N
  /\ numWorkers = numCPU

ZeroDocuments(in) == \A j \in 1..Len(in) : in[j].k = "ws"

DocIds(in) ==
  LET docs == SelectSeq(in, LAMBDA it : it.k # "ws") IN
  [j \in 1..Len(docs) |-> docs[j].id]

\* C10: a Normalize call that succeeds on k >= 1 documents has written the
\* k documents in input order, a separator line between two consecutive
\* documents and none before the first.
C10_DocumentsInOrder ==
  LET ids == DocIds(nsIn)
      k == Len(ids)
  IN (ns.pc = "done" /\ ns.err = NoErr /\ k >= 1) =>
       /\ Len(ns.out) = 2 * k - 1
       /\ \A j \in 1..k : ns.out[2 * j - 1] = ids[j]
       /\ \A j \in 1..(k - 1) : ns.out[2 * j] = Sep

C10_Witness ==
  /\ ns.pc = "done" /\ ns.err = NoErr
  /\ Len(DocIds(nsIn)) >= 2
  /\ \E j \in 1..Len(nsIn) : nsIn[j].k = "ws"

\* The kinds of item on which one of the three steps of the loop fails.
FailKinds == {"decode", "key", "encode"}

\* Position of the first failing item of a stream, 0 when there is none.
FirstFailure(in) ==
  LET bad == {j \in 1..Len(in) : in[j].k \in FailKinds} IN
  IF bad = {} THEN 0 ELSE CHOOSE j \in bad : \A i \in bad : j <= i

\* The separator-joined encodings of the documents ids[1..k].
JoinedDocs(ids) ==
  [j \in 1..(IF Len(ids) = 0 THEN 0 ELSE 2 * Len(ids) - 1) |->
     IF j % 2 = 1 THEN ids[(j + 1) \div 2] ELSE Sep]

Rejected ==
  \/ ~nf.orig[Target].exists
  \/ nf.statErr
  \/ OwnerWrite \notin nf.orig[Target].mode

\* C12: NormalizeFile on a path that is missing, cannot be stat'ed or lacks
\* the owner write bit returns an error and has not opened, truncated or
\* changed anything: bytes and mode of every path are as before the call.
C12_RejectedUpFront ==
  Rejected =>
    /\ ~nf.opened /\ disk = nf.orig
    /\ nf.pc = "done" => nf.err # NoErr

C12_Witness ==
  /\ nf.pc = "done"
  /\ nf.orig[Target].exists /\ ~nf.statErr
  /\ OwnerWrite \notin nf.orig[Target].mode
  /\ nf.orig[Target].data # <<>>

\* C13: on the large-file path the target keeps its original bytes and mode
\* until the rename has happened, whatever fails and wherever the call is
\* interrupted.
C13_OriginalUntouchedBeforeRename ==
  (nf.large /\ ~nf.renamed) => disk[Target] = nf.orig[Target]

C13_Witness ==
  /\ nf.large /\ ~nf.renamed
  /\ nf.pc = "interrupted"
  /\ disk[TmpFile].exists /\ disk[TmpFile].data # <<>>
  /\ nf.orig[Target].data # <<>>

\* C14: after a successful NormalizeFile the target has exactly the
\* permission bits it had before the call, on both paths.
C14_ModePreserved ==
  (nf.pc = "done" /\ nf.err = NoErr) =>
    /\ disk[Target].exists
    /\ disk[Target].mode = nf.orig[Target].mode

\* a and b are ordered one way or the other, or not at all.
Incomparable(a, b) == ~Less(a, b) /\ ~Less(b, a)

\* C18: Less is a strict weak order on the decoded keys: irreflexive,
\* asymmetric, transitive, and with a transitive incomparability.
C18_StrictWeakOrder ==
  cmp.pc = "done" =>
    /\ ~Less(ka, ka)
    /\ ~(cmp.lt /\ cmp.gt)
    /\ \A kc \in CmpKeys :
         /\ (cmp.lt /\ Less(kb, kc)) => Less(ka, kc)
         /\ (Incomparable(ka, kb) /\ Incomparable(kb, kc)) =>
              Incomparable(ka, kc)

RECURSIVE StripZeros(_)
\* A run of digits without its leading zeros.
StripZeros(d) ==
  IF d # <<>> /\ d[1] = 48 THEN StripZeros(Tail(d)) ELSE d

\* The runs of digits x and y read as integers of any size (the empty run
\* as zero): x is the smaller one, x and y are equal.
BigLess(x, y) ==
  LET u == StripZeros(x)
      v == StripZeros(y)
  IN \/ Len(u) < Len(v)
     \/ /\ Len(u) = Len(v)
        /\ \E k \in 1..Len(u) :
             u[k] < v[k] /\ \A h \in 1..(k - 1) : u[h] = v[h]

BigEqual(x, y) == StripZeros(x) = StripZeros(y)

RECURSIVE RunStart(_, _)
\* The first position of the digit run that holds position p.
RunStart(a, p) ==
  IF p > 1 /\ IsDigit(a[p - 1]) THEN RunStart(a, p - 1) ELSE p

\* a is b cut short.
ProperPrefix(a, b) == Len(a) < Len(b) /\ SubSeq(b, 1, Len(a)) = a

\* C20: of two string keys, a proper prefix sorts before the longer string,
\* and when the first differing runes are both digits, the string whose
\* digit run there has the smaller numeric value sorts first ("item2"
\* before "item10").
C20_NaturalOrder ==
  (cmp.pc = "done" /\ ka.t = "String" /\ kb.t = "String") =>
    LET a == ka.s
        b == kb.s
        p == CommonPrefix(a, b) + 1
    IN /\ ProperPrefix(a, b) => (cmp.lt /\ ~cmp.gt)
       /\ (p <= Len(a) /\ p <= Len(b) /\ IsDigit(a[p]) /\ IsDigit(b[p])
             /\ BigLess(SubSeq(a, RunStart(a, p), DigitRunEnd(a, p) - 1),
                        SubSeq(b, RunStart(b, p), DigitRunEnd(b, p) - 1))) =>
            (cmp.lt /\ ~cmp.gt)

C20_Witness ==
  /\ cmp.pc = "done"
  /\ ka = StringKey(<<97, 50>>)
  /\ kb = StringKey(<<97, 49, 48>>)
  /\ cmp.lt

NodeIds == 1..Len(doc0)

\* The outermost normalizeNode call has returned.
NodeDone == doc0 # <<>> /\ stack = <<>>

Comments(n) == <<n.head, n.line, n.foot>>

\* C15: after canonicalization every node of the graph has the default
\* style; without preserveComments its three comments are empty, with
\* preserveComments they are what they were.
C15_StyleAndComments ==
  NodeDone =>
    \A id \in NodeIds :
      /\ tree[id].style = 0
      /\ Comments(tree[id]) =
           IF preserve THEN Comments(doc0[id]) ELSE <<"", "", "">>

C15_Witness ==
  /\ NodeDone /\ ~preserve
  /\ Len(doc0) >= 6
  /\ \A id \in NodeIds : doc0[id].style # 0 /\ doc0[id].foot # ""

\* The (key, value) pairs of a mapping's content.
Pairs(content) ==
  {<<content[2 * i - 1], content[2 * i]>> : i \in 1..(Len(content) \div 2)}

\* C16: canonicalizing a mapping only permutes its entries: the content has
\* the same length and the same (key, value) pairs, every key directly
\* followed by its own value, and the entries are in non-decreasing order:
\* no key is less than a key that comes before it.
C16_MappingPermuted ==
  \A id \in NodeIds :
    doc0[id].kind = "map" =>
      LET c == tree[id].content IN
      /\ Len(c) = Len(doc0[id].content)
      /\ Pairs(c) = Pairs(doc0[id].content)
      /\ NodeDone =>
           \A i, j \in 1..(Len(c) \div 2) :
             i < j =>
               ~Less(KeyOf(tree, c[2 * j - 1]), KeyOf(tree, c[2 * i - 1]))

\* C17: the items of every sequence node are, at every point of the
\* transform and after it, the original items in the original order.
C17_SequenceOrderKept ==
  \A id \in NodeIds :
    doc0[id].kind = "seq" => tree[id].content = doc0[id].content

C17_Witness ==
  /\ NodeDone
  /\ doc0[2].kind = "seq" /\ Len(doc0[2].content) >= 2
  /\ \E i \in 1..(Len(doc0[2].content) - 1) :
       Less(KeyOf(doc0, doc0[2].content[i + 1]),
            KeyOf(doc0, doc0[2].content[i]))

\* The decoded keys of a mapping's content, in order.
KeyOrder(t, content) ==
  [i \in 1..(Len(content) \div 2) |-> KeyOf(t, content[2 * i - 1])]

\* The content with its entries rearranged by the permutation f.
Permuted(content, f) ==
  [j \in 1..Len(content) |-> content[2 * f[(j + 1) \div 2] - (j % 2)]]

EntryOrders(n) ==
  {f \in [1..n -> 1..n] : \A i, j \in 1..n : f[i] = f[j] => i = j}

\* C19: the key order sortMapKeys produces is the same for every
\* permutation of a mapping's entries.
C19_KeyOrderDeterministic ==
  \A id \in NodeIds :
    (NodeDone /\ doc0[id].kind = "map") =>
      \A f \in EntryOrders(Len(doc0[id].content) \div 2) :
        KeyOrder(tree, sortMapKeys(tree, Permuted(doc0[id].content, f)))
          = KeyOrder(tree, tree[id].content)

\* The mappings of the graph one of whose keys fails to decode.
BadKeyMaps ==
  {id \in NodeIds :
     /\ doc0[id].kind = "map"
     /\ \E i \in 1..(Len(doc0[id].content) \div 2) :
          DecodeErr(doc0, doc0[id].content[2 * i - 1]) # NoErr}

\* C21: when a key of a mapping fails to decode, normalizeNode returns that
\* error and the entries of the mapping are not sorted with the key standing
\* for a zero value: its content is left as it was.
C21_KeyDecodeErrorAborts ==
  NodeDone =>
    \A id \in BadKeyMaps :
      /\ nodeErr = Err("decode key", -1)
      /\ tree[id].content = doc0[id].content

C23_FileEqualsNormalize ==
  (nf.pc = "done" /\ nf.err = NoErr
     /\ Normalize(nf.orig[Target].data).err = NoErr) =>
    /\ disk[Target].exists
    /\ disk[Target].data = Normalize(nf.orig[Target].data).out

C23_Witness ==
  /\ nf.pc = "done" /\ nf.err = NoErr
  /\ nf.large /\ nf.renamed
  /\ nf.orig[TmpFile].exists
  /\ Len(disk[Target].data) >= 3

\* C24: once a worker has failed the group's context is cancelled, and from
\* then on no worker that takes a file from the queue starts on it: files
\* are processed and paths written only by workers that had started on them
\* before.
C24_NoNewFileAfterCancel ==
  [][/\ failed' # {} => workersCancel'
     /\ workersCancel =>
          /\ \A w \in Workers : wPc[w] = "recv" => wPc'[w] # "file"
          /\ \A i \in Indices :
               procCount'[i] > procCount[i] =>
                 \E w \in Workers : wPc[w] = "file" /\ wInfo[w].index = i
          /\ \A p \in Paths :
               fs'[p] # fs[p] =>
                 \E w \in Workers :
                   wPc[w] \in {"file", "write"} /\ wInfo[w].filename = p]_vars

\* A worker failed, and a file taken from the queue after that was left
\* unprocessed, the caller's context never being cancelled.
C24_Witness ==
  /\ mainPc = "done" /\ ~ctxDone
  /\ failed # {}
  /\ \E i \in Indices : recvCount[i] = 1 /\ procCount[i] = 0

\* C25: once the sequencer has failed on a write to the output stream, the
\* cancellation signal the workers look at is set: no worker that takes a
\* file from the queue after that starts on it.
C25_SequencerFailureStopsWorkers ==
  [][readerErr = ErrWrite =>
       /\ WorkersCtxErr
       /\ \A w \in Workers : wPc[w] = "recv" => wPc'[w] # "file"]_vars

\* C26: on the small-file path the content is normalized in memory before
\* the file is reopened: when Normalize fails on the content, the file has
\* not been truncated and holds its original bytes.
C26_SmallFileKeptOnFailure ==
  (~nf.large /\ nf.ns.pc = "done" /\ nf.ns.err # NoErr) =>
    disk[Target] = nf.orig[Target]

\* The sort treats a and b as equal: neither is less than the other, or
\* they are numbers of one value (1, 1.0 and true).
Tied(a, b) ==
  \/ ~Less(a, b) /\ ~Less(b, a)
  \/ IsNumber(a) /\ IsNumber(b) /\ ~NumNe(a, b)

\* The position of the node id in the content.
PosIn(content, id) == CHOOSE j \in 1..Len(content) : content[j] = id

LetterMeetsDigit ==
  /\ cmp.pc = "done" /\ ka.t = "String" /\ kb.t = "String"
  /\ LET p == CommonPrefix(ka.s, kb.s) + 1 IN
     /\ p <= Len(ka.s) /\ p <= Len(kb.s)
     /\ \/ IsLetter(ka.s[p]) /\ IsDigit(kb.s[p])
        \/ IsDigit(ka.s[p]) /\ IsLetter(kb.s[p])

\* The result of the two calls when the string with the letter, or the one
\* with the digit, sorts first.
LetterFirst ==
  LET aLetter == IsLetter(ka.s[CommonPrefix(ka.s, kb.s) + 1]) IN
  cmp.lt = aLetter /\ cmp.gt = ~aLetter

DigitFirst ==
  LET aLetter == IsLetter(ka.s[CommonPrefix(ka.s, kb.s) + 1]) IN
  cmp.lt = ~aLetter /\ cmp.gt = aLetter

NoLetterAtDifference ==
  /\ cmp.pc = "done" /\ ka.t = "String" /\ kb.t = "String"
  /\ LET p == CommonPrefix(ka.s, kb.s) + 1 IN
     /\ p <= Len(ka.s) /\ p <= Len(kb.s)
     /\ ~IsLetter(ka.s[p]) /\ ~IsLetter(kb.s[p])

\* The maximal run of digits of a that starts at position p.
RunFrom(a, p) == SubSeq(a, p, DigitRunEnd(a, p) - 1)

\* C29: when neither of the first differing runes is a letter, the digit
\* runs that start there are compared as integers of any size: the string
\* with the smaller run sorts first, however long the runs are, and the
\* runes themselves decide only when the runs have one value and one length.
C29_DigitRunsAnySize ==
  NoLetterAtDifference =>
    LET p == CommonPrefix(ka.s, kb.s) + 1
        ra == RunFrom(ka.s, p)
        rb == RunFrom(kb.s, p)
    IN /\ BigLess(ra, rb) => (cmp.lt /\ ~cmp.gt)
       /\ BigLess(rb, ra) => (cmp.gt /\ ~cmp.lt)
       /\ (BigEqual(ra, rb) /\ Len(ra) = Len(rb)) =>
            /\ cmp.lt = (ka.s[p] < kb.s[p])
            /\ cmp.gt = (kb.s[p] < ka.s[p])

\* The numeric value of a Bool, Int or Float key, in halves.
ValueInHalves(k) == IF k.t = "Float" THEN k.n ELSE 2 * k.n

\* The rank of the numeric kinds: Bool, then Int, then Float.
NumericRank(k) ==
  CASE k.t = "Bool" -> 1 [] k.t = "Int" -> 2 [] k.t = "Float" -> 3

Classes == <<"Null", "Bool", "Int", "Float", "Map", "Seq", "String">>

ClassRank(k) == CHOOSE r \in 1..Len(Classes) : Classes[r] = k.t

\* C31: two keys that are not both numeric-like and not both strings are
\* ordered by the rank of their classification alone: a numeric-like key
\* sorts before a string key, and of two keys of one classification neither
\* is less than the other.
C31_MixedKindsByRank ==
  (cmp.pc = "done"
     /\ ~(IsNumber(ka) /\ IsNumber(kb))
     /\ ~(ka.t = "String" /\ kb.t = "String")) =>
    /\ cmp.lt = (ClassRank(ka) < ClassRank(kb))
    /\ cmp.gt = (ClassRank(kb) < ClassRank(ka))
    /\ (IsNumber(ka) /\ kb.t = "String") => (cmp.lt /\ ~cmp.gt)
    /\ ka.t = kb.t => (~cmp.lt /\ ~cmp.gt)

\* The integer 2 against the string "1".
C31_Witness ==
  /\ cmp.pc = "done"
  /\ ka = IntKey(2) /\ kb = StringKey(<<49>>)
  /\ cmp.lt /\ ~cmp.gt

\* The nodes with an active normalizeNode call.
Active == {stack[h].node : h \in 1..Len(stack)}

\* The call on the node has been made and has returned.
Returned(id) == visits[id] = 1 /\ id \notin Active

\* C32: normalizeNode is entered at most once on every node and, when the
\* walk is over, exactly once; the calls on the children of a node have
\* returned before its own call returns and before its content is sorted;
\* the node an alias refers to is the same node as before, reached through
\* its own place in the graph only, and no node is added to the graph.
C32_EachNodeOnce ==
  /\ \A id \in NodeIds : visits[id] <= 1
  /\ (NodeDone /\ nodeErr = NoErr) => \A id \in NodeIds : visits[id] = 1
  /\ \A id \in NodeIds :
       (Returned(id) \/ tree[id].content # doc0[id].content) =>
         /\ Returned(id)
         /\ \A j \in 1..Len(doc0[id].content) : Returned(doc0[id].content[j])
  /\ Len(tree) = Len(doc0)
  /\ \A id \in NodeIds : tree[id].alias = doc0[id].alias

\* The walk is over on a document with an alias to a mapping of two
\* entries, which were reordered.
C32_Witness ==
  /\ NodeDone /\ nodeErr = NoErr
  /\ Len(doc0) >= 6
  /\ doc0[6].kind = "alias" /\ doc0[6].alias = 4
  /\ Len(doc0[4].content) = 4
  /\ tree[4].content # doc0[4].content

\* C33 as stated: when Normalize has returned, enc.Close() has run if and
\* only if at least one document was encoded; it has not run on an input
\* without documents nor after an error.
C33_CloseIffEncoded ==
  ns.pc = "done" =>
    /\ ns.closed <=> ns.encoded >= 1
    /\ ns.encoded = 0 => ~ns.closed
    /\ ns.err # NoErr => ~ns.closed

\* C33 amended: enc.Close() has run if and only if at least one document was
\* encoded and the end of the input was reached without an error; it does
\* not run before the loop is over.
C33_CloseIffEncodedAndNoError ==
  /\ ns.pc # "done" => ~ns.closed
  /\ ns.pc = "done" =>
       /\ ns.closed <=> (ns.encoded >= 1 /\ ns.err = NoErr)
       /\ ns.encoded = 0 => ~ns.closed
       /\ ns.err # NoErr => ~ns.closed

\* Normalize has returned after it encoded two documents and closed the
\* encoder.
C33_Witness ==
  ns.pc = "done" /\ ns.encoded >= 2 /\ ns.err = NoErr /\ ns.closed

\* The sequence p is the beginning of the sequence q.
StartsWith(q, p) == Len(p) <= Len(q) /\ SubSeq(q, 1, Len(p)) = p

\* C34: at every point of a combined call the indices whose bytes were
\* written are 0, 1, ... in ascending order, each once, and the output is
\* result[0], separator, result[1], ... up to the last of them, followed at
\* most by the separator line of the next result: a prefix of the in-order
\* output of the files written or about to be written.
C34_OutputIsPrefix ==
  mode = "combined" =>
    /\ written = [j \in 1..nextIndex |-> j - 1]
    /\ nextIndex <= N
    /\ \A i \in 0..(nextIndex - 1) : ~BadFile(i)
    /\ \/ out = Joined(nextIndex)
       \/ /\ out = Joined(nextIndex) \o <<Sep>>
          /\ nextIndex \in 1..(N - 1) /\ ~BadFile(nextIndex)
    /\ \E k \in nextIndex..N :
         /\ \A i \in 0..(k - 1) : ~BadFile(i)
         /\ StartsWith(Joined(k), out)

\* A combined call of two files has returned the error of its second file
\* after the bytes of the first were written.
C34_Witness ==
  /\ mode = "combined" /\ mainPc = "done" /\ ret # NoErr
  /\ N = 2 /\ failed = {1}
  /\ nextIndex = 1 /\ out = Joined(1) /\ out # <<>>

\* C35: once normalizeTo has returned the sequencer goroutine has returned
\* too, and no step writes to the output stream any more.
C35_NoWriteAfterReturn ==
  [][(mode = "combined" /\ mainPc = "done") =>
       (sPc = "done" /\ out' = out)]_vars

\* The sequencer is between two results: at the head of its range loop, or
\* past it with nil.
SeqBetweenResults == sPc = "recv" \/ (sPc = "done" /\ readerErr = NoErr)

\* C36: whenever the sequencer has handled a result, its map holds only
\* indices above nextIndex, the indices below nextIndex are the ones written,
\* in order, and none of them is in the map; when the results of all N files
\* were taken in, the map is empty and nextIndex = N.
C36_HoldingMap ==
  (mode = "combined" /\ SeqBetweenResults) =>
    /\ \A j \in DOMAIN results : j > nextIndex /\ j < N
    /\ written = [j \in 1..nextIndex |-> j - 1]
    /\ Cardinality(DOMAIN results) + Len(written) = N =>
         (results = <<>> /\ nextIndex = N)

\* The result of index 1 came first and was held in the map, and both were
\* written when index 0 came.
C36_Witness ==
  /\ mode = "combined" /\ sPc = "recv"
  /\ N = 2 /\ heldBack
  /\ nextIndex = 2 /\ results = <<>>

\* No send waits: the caller finds room in filesChan for every file, and a
\* worker that holds a result finds room in resultsChan.
SendsNeverBlock ==
  /\ (mainPc = "enqueue" /\ enq < N) => Len(filesChan) < ChanCap
  /\ \A w \in Workers :
       (mode = "combined" /\ wPc[w] = "file") => Len(resultsChan) < ChanCap

\* C37: in every run of a batch call, whatever files fail and whenever the
\* context is cancelled, no send on filesChan or resultsChan waits and the
\* call returns.
C37_AlwaysReturns == []SendsNeverBlock /\ <>(mainPc = "done")

\* A combined call has returned after the sequencer stopped on a failed
\* write while a worker still had a result to send.
C37_Witness ==
  /\ mode = "combined" /\ mainPc = "done"
  /\ N = 2 /\ readerErr = ErrWrite
  /\ \A i \in Indices : procCount[i] = 1 /\ ~BadFile(i)

\* What NormalizeFile leaves in a file that held data.
NormalizedFile(data) == File(AsStream(Normalize(data).out))

\* C38: a batch call that returns nil is complete.  In place, every file of
\* the list was processed exactly once and holds the canonical form of what
\* it held when the call was made; combined, the results of all N files were
\* written with the N-1 separator lines between them.
C38_SuccessIsComplete ==
  (mainPc = "done" /\ ret = NoErr) =>
    /\ mode = "inplace" =>
         \A i \in Indices :
           /\ procCount[i] = 1
           /\ fs[PathOf(i)] = NormalizedFile(atCall.fs[PathOf(i)].data)
    /\ mode = "combined" =>
         /\ written = [j \in 1..N |-> j - 1]
         /\ out = Joined(N)
         /\ Len(SelectSeq(out, LAMBDA t : t = Sep)) >= N - 1

\* The same on the lists that name no path twice.
SuccessIsCompleteOnDistinctPaths ==
  (\A i \in Indices, j \in Indices : PathOf(i) = PathOf(j) => i = j) =>
    C38_SuccessIsComplete

\* C39: a batch call made with a context that is cancelled already opens
\* and changes no file, writes nothing to the output stream, and returns a
\* non-nil error.
C39_CancelledAtCall ==
  (atCall.ctxDone /\ N >= 1) =>
    /\ \A i \in Indices : procCount[i] = 0
    /\ \A w \in Workers : wPc[w] \in {"recv", "done"}
    /\ fs = atCall.fs
    /\ out = <<>>
    /\ mainPc = "done" => ret # NoErr

\* A call on two files with two workers, made with a cancelled context, has
\* returned the context's error.
C39_Witness ==
  /\ atCall.ctxDone /\ mainPc = "done"
  /\ N = 2 /\ numWorkers = 2
  /\ ret = ErrCanceled
  /\ \E i \in Indices : recvCount[i] = 1

\* C40: when NormalizeFile has returned from its large-file path, with or
\* without an error, the temporary path holds no file if it held none
\* before the call, and a file that was there before the call is as it was.
C40_OnlyTargetChanged ==
  (nf.pc = "done" /\ nf.large) =>
    /\ ~nf.orig[TmpFile].exists => ~disk[TmpFile].exists
    /\ nf.orig[TmpFile].exists => disk[TmpFile] = nf.orig[TmpFile]

====
